---- MODULE Spec2Model ----
(***************************************************************************)
(* A model of the puzzle generator component                               *)
(* (src/src/react-app/components/PuzzleGenerator.tsx).                     *)
(*                                                                         *)
(* Spec is generatePuzzles as a whole: the call, the timer, and the        *)
(* deferred callback block by block, with the setters it calls and the     *)
(* places where a canvas call can throw.  The other specifications run one *)
(* fragment of the callback in finer steps: SpecGrid the classic grid      *)
(* build (random pass, then propagation pass) one loop iteration at a      *)
(* time; SpecMissing the rejection-sampling loop one draw at a time;       *)
(* SpecScale the canvas set-up with its quality-tier scaling; SpecAbstract *)
(* drawAbstractPuzzlePiece one perimeter point at a time; SpecClassic the  *)
(* classic outline one side at a time; SpecMissingFair is SpecMissing with *)
(* the loop scheduled fairly.  SpecOverlap lets generatePuzzles be called  *)
(* while timers of earlier calls are pending, and SpecUI follows the event *)
(* handlers of the component up to the calls they make.                    *)
(*                                                                         *)
(* Numbers.  JavaScript numbers are IEEE doubles.  Lengths are kept as     *)
(* exact fractions [num, den]; where a double can differ from the exact    *)
(* value in a way the program can observe (the truncation of a scaled      *)
(* length to a canvas dimension) every outcome rounding can produce is     *)
(* allowed.                                                                *)
(***************************************************************************)
EXTENDS Integers, Sequences, FiniteSets, TLC

\* ------------------------------------------------------------------ bounds
\* Largest grid explored (the sliders allow up to 12 x 10).
BoundColumns == 3
BoundRows == 3
\* At most this many of the coin flips of one grid build come up true.
MaxTabs == 2

\* random(index) takes the values RandomLevels / RandomDen.
RandomDen == 20

\* Most timers pending at once.
MaxPending == 3

\* ------------------------------------------------------- program constants
MinColumns == 3
MinRows == 3
MinMissingPercentage == 10
MaxMissingPercentage == 60
DefaultMissingPercentage == 30

VARIABLES
    pc,            \* position inside the deferred callback
    img,           \* the img argument of generatePuzzles
    settings,      \* the settings argument of generatePuzzles
    width, height, \* let { width, height } = img, after scaling
    newCompleteCanvas, \* the callback's local completeCanvas
    newMissingCanvas,  \* the callback's local missingCanvas
    piecePattern,  \* <<row, col>> -> [top, right, bottom, left]
    row, col,      \* loop counters of the pass in progress
    tabsDrawn,     \* coin flips of this build that came up true
    writes,        \* <<row, col>> -> how often each flag has been assigned
    usedShapeSeed, \* currentShapeSeed || shapeSeed, as the callback captured it
    totalPieces,   \* settings.rows * settings.columns
    missingCount,  \* Math.floor(totalPieces * settings.missingPercentage / 100)
    missingIndices,\* the Set<number> of indices to cut out
    earlierCalls,  \* whether an earlier generation has already run to its end
    rect,          \* the (x, y, w, h) arguments of drawAbstractPuzzlePiece
    segments,      \* 12 + Math.floor(random(0) * 8)
    random0,       \* the level of random(0), read again for point 0
    pointIndex,    \* i: the next entry of points to compute and draw to
    pathOps,       \* what was emitted last: a moveTo, or a lineTo preceded by its kink
    isProcessing,  \* useState(false)
    completeCanvas,\* useState<HTMLCanvasElement | null>(null)
    missingCanvas, \* useState<HTMLCanvasElement | null>(null)
    pieceStats,    \* useState<{total, missing} | null>(null): {} or {stats}
    shapeSeed,     \* the shapeSeed generatePuzzles closed over (its deps are [])
    timers,        \* the setTimeout callbacks not yet run, oldest first
    published,     \* which setters the callback in progress, or the last one, called
    lastArgs,      \* the arguments of the callback that set completeCanvas
    lastIssued,    \* the arguments of the latest call of generatePuzzles
    image,         \* useState<HTMLImageElement | null>(null)
    stateSettings, \* the settings state, as the latest render sees it
    stateShapeSeed,\* the shapeSeed state, as the latest render sees it
    capturedShapeSeed \* the shapeSeed the current processImageFile closed over

gridVars == <<piecePattern, row, col, tabsDrawn, writes>>
missVars == <<totalPieces, missingCount, missingIndices>>
canvasVars == <<width, height, newCompleteCanvas, newMissingCanvas>>
argVars == <<img, settings, usedShapeSeed>>
pathVars == <<rect, segments, random0, pointIndex, pathOps>>
hookVars == <<isProcessing, completeCanvas, missingCanvas, pieceStats, shapeSeed>>
uiVars == <<image, stateSettings, stateShapeSeed, capturedShapeSeed>>
compVars == <<hookVars, timers, published, lastArgs, lastIssued, uiVars>>
vars == <<pc, argVars, canvasVars, gridVars, missVars, earlierCalls, pathVars, compVars>>

\* ------------------------------------------------------------ grid builder
PuzzleSettings(columns, rows, missingPercentage, pieceStyle, borderColor, outputQuality) ==
    [columns |-> columns, rows |-> rows,
     missingPercentage |-> missingPercentage, pieceStyle |-> pieceStyle,
     borderColor |-> borderColor, outputQuality |-> outputQuality]

\* useState<PuzzleSettings>({...}): the settings a fresh component holds.
DefaultSettings == PuzzleSettings(6, 4, DefaultMissingPercentage, "classic", "#000000", "high")

\* The state of a fragment's locals while the callback is not inside it.
GridIdle == piecePattern = <<>> /\ row = 0 /\ col = 0 /\ tabsDrawn = 0 /\ writes = <<>>
MissingIdle == totalPieces = 0 /\ missingCount = 0 /\ missingIndices = {}
NoCanvas == [width |-> 0, height |-> 0, ops |-> <<>>]
CanvasIdle ==
    /\ width = [num |-> 0, den |-> 1]
    /\ height = [num |-> 0, den |-> 1]
    /\ newCompleteCanvas = NoCanvas
    /\ newMissingCanvas = NoCanvas

\* useState<HTMLImageElement | null>(null): no image yet
NoImage == [id |-> 0, width |-> 0, height |-> 0]

\* The component as mounted, before any generation.
ComponentIdle ==
    /\ isProcessing = FALSE
    /\ completeCanvas = NoCanvas
    /\ missingCanvas = NoCanvas
    /\ pieceStats = {}
    /\ shapeSeed = 1
    /\ timers = <<>>
    /\ published = {}
    /\ lastArgs = <<>>
    /\ lastIssued = <<>>
    /\ image = NoImage
    /\ stateSettings = DefaultSettings
    /\ stateShapeSeed = shapeSeed
    /\ capturedShapeSeed = shapeSeed

PathIdle ==
    /\ rect = [x |-> 0, y |-> 0, w |-> 0, h |-> 0]
    /\ segments = 0
    /\ random0 = 0
    /\ pointIndex = 0
    /\ pathOps = <<>>

\* An HTMLImageElement: what the program reads of it is its size; id stands
\* for its pixels.
Image(id, w, h) == [id |-> id, width |-> w, height |-> h]
DefaultImage == Image(1, 900, 600)

\* row === 0 ? false : Math.random() > 0.5   (and the three like it)
EdgeFlagUnforced(onBoundary, coin) == coin
EdgeFlag(onBoundary, coin) == IF onBoundary THEN FALSE ELSE coin

\* The object literal assigned to piecePattern[row][col] by the random pass.
InitialPiece(s, r, c, coins) ==
    [top    |-> EdgeFlag(r = 0, coins.top),
     right  |-> EdgeFlag(c = s.columns - 1, coins.right),
     bottom |-> EdgeFlag(r = s.rows - 1, coins.bottom),
     left   |-> EdgeFlag(c = 0, coins.left)]

\* Math.random() is called only for the edges that are not forced: the other
\* components of an outcome are never looked at.
CoinsUsed(s, r, c, coins) ==
    (IF r # 0 /\ coins.top THEN 1 ELSE 0)
    + (IF c # s.columns - 1 /\ coins.right THEN 1 ELSE 0)
    + (IF r # s.rows - 1 /\ coins.bottom THEN 1 ELSE 0)
    + (IF c # 0 /\ coins.left THEN 1 ELSE 0)

CoinOutcomes == [top : BOOLEAN, right : BOOLEAN, bottom : BOOLEAN, left : BOOLEAN]

\* piecePattern[row][col + 1].left = !piece.right
PropagatedLeftSame(piece) == piece.right
PropagatedLeft(piece) == ~piece.right

\* piecePattern[row + 1][col].top = !piece.bottom
PropagatedTopSame(piece) == piece.bottom
PropagatedTop(piece) == ~piece.bottom

\* One iteration of the body of the consistency pass, as a grid transformer.
PropagateFromBackward(s, grid, r, c) ==
    IF c < s.columns - 1
    THEN [grid EXCEPT ![<<r, c>>].right = ~grid[<<r, c + 1>>].left]
    ELSE grid
PropagateFrom(s, grid, r, c) ==
    LET piece == grid[<<r, c>>]
        g1 == IF c < s.columns - 1
              THEN [grid EXCEPT ![<<r, c + 1>>].left = PropagatedLeft(piece)]
              ELSE grid
    IN  IF r < s.rows - 1
        THEN [g1 EXCEPT ![<<r + 1, c>>].top = PropagatedTop(piece)]
        ELSE g1

\* The <<row, col>> pairs the two nested loops visit.
Cells(s) == (0..s.rows - 1) \X (0..s.columns - 1)

\* The object literal of the random pass assigns each of the four flags once.
Flags == {"top", "right", "bottom", "left"}
LiteralWrites == [flag \in Flags |-> 1]

\* The assignments of one iteration of the consistency pass: the left flag of
\* the right neighbour and the top flag of the bottom neighbour.
PropagationTargets(s, r, c) ==
    (IF c < s.columns - 1 THEN {<<r, c + 1, "left">>} ELSE {})
    \cup (IF r < s.rows - 1 THEN {<<r + 1, c, "top">>} ELSE {})

\* The assignment counts after the given assignments.
CountWrites(counts, targets) ==
    [rc \in DOMAIN counts |->
        [flag \in Flags |->
            counts[rc][flag] + (IF <<rc[1], rc[2], flag>> \in targets THEN 1 ELSE 0)]]

LastCell(s, r, c) == r = s.rows - 1 /\ c = s.columns - 1
NextRow(s, r, c) == IF c = s.columns - 1 THEN r + 1 ELSE r
NextCol(s, r, c) == IF c = s.columns - 1 THEN 0 ELSE c + 1

\* for (row ...) for (col ...) piecePattern[row][col] = {...}
RandomCell ==
    /\ pc = "random"
    /\ \E coins \in CoinOutcomes :
          /\ tabsDrawn + CoinsUsed(settings, row, col, coins) <= MaxTabs
          /\ piecePattern' =
                (<<row, col>> :> InitialPiece(settings, row, col, coins)) @@ piecePattern
          /\ tabsDrawn' = tabsDrawn + CoinsUsed(settings, row, col, coins)
    /\ writes' = (<<row, col>> :> LiteralWrites) @@ writes
    /\ IF LastCell(settings, row, col)
       THEN pc' = "propagate" /\ row' = 0 /\ col' = 0
       ELSE /\ pc' = pc
            /\ row' = NextRow(settings, row, col)
            /\ col' = NextCol(settings, row, col)
    /\ UNCHANGED <<compVars, argVars, canvasVars, missVars, earlierCalls, pathVars>>

\* for (row ...) for (col ...) { right neighbor; bottom neighbor }
PropagateCell ==
    /\ pc = "propagate"
    /\ piecePattern' = PropagateFrom(settings, piecePattern, row, col)
    /\ writes' = CountWrites(writes, PropagationTargets(settings, row, col))
    /\ IF LastCell(settings, row, col)
       THEN pc' = "gridBuilt" /\ UNCHANGED <<row, col>>
       ELSE /\ pc' = pc
            /\ row' = NextRow(settings, row, col)
            /\ col' = NextCol(settings, row, col)
    /\ UNCHANGED <<compVars, argVars, canvasVars, tabsDrawn, missVars, earlierCalls, pathVars>>

GridSettings ==
    {[DefaultSettings EXCEPT !.columns = c, !.rows = r] :
        c \in MinColumns..BoundColumns, r \in MinRows..BoundRows}

InitGrid ==
    /\ pc = "random"
    /\ settings \in GridSettings
    /\ piecePattern = <<>>
    /\ row = 0
    /\ col = 0
    /\ tabsDrawn = 0
    /\ writes = <<>>
    /\ img = DefaultImage
    /\ usedShapeSeed = 1
    /\ CanvasIdle
    /\ MissingIdle
    /\ earlierCalls = FALSE
    /\ ComponentIdle
    /\ PathIdle

NextGrid == RandomCell \/ PropagateCell

SpecGrid == InitGrid /\ [][NextGrid]_vars

\* ------------------------------------------------------------ canvas set-up
\* qualitySettings; Infinity is never compared (the test for 'original'
\* comes first and short-circuits).
HasCap(quality) == quality # "original"
MaxWidth(quality) ==
    CASE quality = "fast" -> 800 [] quality = "standard" -> 1280 [] quality = "high" -> 1920
MaxHeight(quality) ==
    CASE quality = "fast" -> 600 [] quality = "standard" -> 720 [] quality = "high" -> 1080

Rational(n, d) == [num |-> n, den |-> d]

\* settings.outputQuality !== 'original' && (width > maxWidth || height > maxHeight)
NeedsScaling(quality, w, h) ==
    HasCap(quality) /\ (w > MaxWidth(quality) \/ h > MaxHeight(quality))

\* Math.min(maxWidth / width, maxHeight / height), as a fraction
ScaleMax(quality, w, h) ==
    IF MaxWidth(quality) * h >= MaxHeight(quality) * w
    THEN Rational(MaxWidth(quality), w)
    ELSE Rational(MaxHeight(quality), h)
Scale(quality, w, h) ==
    IF MaxWidth(quality) * h <= MaxHeight(quality) * w
    THEN Rational(MaxWidth(quality), w)
    ELSE Rational(MaxHeight(quality), h)

\* width *= scale
Scaled(length, scale) == Rational(length * scale.num, scale.den)

RECURSIVE GCD(_, _)
GCD(a, b) == IF b = 0 THEN a ELSE GCD(b, a % b)

RECURSIVE IsPowerOfTwo(_)
IsPowerOfTwo(n) == n = 1 \/ (n > 1 /\ n % 2 = 0 /\ IsPowerOfTwo(n \div 2))

\* Whether the double computed for the quotient is the quotient itself.
ExactDouble(q) == IsPowerOfTwo(q.den \div GCD(q.num, q.den))

\* canvas.width = width: the setter truncates the double to an integer.  A
\* product by an inexact scale lies within an ulp of its exact value, so an
\* exact value that is an integer n truncates to n or to n - 1.
CanvasLength(length, exact) ==
    IF length.num % length.den # 0 THEN {length.num \div length.den}
    ELSE IF exact \/ length.num = 0 THEN {length.num \div length.den}
    ELSE {length.num \div length.den, (length.num \div length.den) - 1}

\* completeCtx.drawImage(img, 0, 0, width, height)
DrawImage(source, w, h) == [op |-> "drawImage", img |-> source.id, w |-> w, h |-> h]

\* Lines 93-124: both canvases created, sized and painted with the image.
CreateCanvases ==
    /\ pc = "canvas"
    /\ LET scaling == NeedsScaling(settings.outputQuality, img.width, img.height)
           scale == IF scaling THEN Scale(settings.outputQuality, img.width, img.height)
                    ELSE Rational(1, 1)
           w == IF scaling THEN Scaled(img.width, scale) ELSE Rational(img.width, 1)
           h == IF scaling THEN Scaled(img.height, scale) ELSE Rational(img.height, 1)
       IN  /\ width' = w
           /\ height' = h
           /\ \E cw \in CanvasLength(w, ExactDouble(scale)),
                 ch \in CanvasLength(h, ExactDouble(scale)) :
                 /\ newCompleteCanvas' =
                       [width |-> cw, height |-> ch, ops |-> <<DrawImage(img, w, h)>>]
                 /\ newMissingCanvas' =
                       [width |-> cw, height |-> ch, ops |-> <<DrawImage(img, w, h)>>]
    /\ pc' = "grid"
    /\ UNCHANGED <<compVars, argVars, gridVars, missVars, earlierCalls, pathVars>>

Qualities == {"fast", "standard", "high", "original"}
SourceWidths == {1, 640, 800, 801, 1060, 1280, 1600, 1920, 1921, 4000}
SourceHeights == {1, 480, 600, 601, 720, 1080, 1081, 1200, 3000}

InitScale ==
    /\ pc = "canvas"
    /\ img \in {Image(1, w, h) : w \in SourceWidths, h \in SourceHeights}
    /\ settings \in {[DefaultSettings EXCEPT !.outputQuality = q] : q \in Qualities}
    /\ usedShapeSeed = 1
    /\ CanvasIdle
    /\ GridIdle
    /\ MissingIdle
    /\ earlierCalls = FALSE
    /\ ComponentIdle
    /\ PathIdle

NextScale == CreateCanvases

SpecScale == InitScale /\ [][NextScale]_vars

\* ------------------------------------------------ abstract piece path
\* random(index) = frac(sin(seed * 9.898 + index * 78.233) * 43758.5453) is a
\* value of [0, 1) fixed by (seed, index).  Of the seed the path reads nothing
\* else, so a seed is modelled by the values it gives: each call draws a level
\* k, meaning k / RandomDen, and every combination of levels is allowed (the
\* hash allows no more).  random(0) is read twice, for segments and for point
\* 0, and is drawn once.
RandomLevels == {0, RandomDen - 1}

Min(a, b) == IF a <= b THEN a ELSE b
Max(a, b) == IF a >= b THEN a ELSE b

\* Coordinates are exact fractions over Unit(segments); every term below is the
\* source's term multiplied by that unit.
Unit(s) == 80 * RandomDen * s

\* 12 + Math.floor(random(0) * 8)
Segments(k0) == 12 + ((k0 * 8) \div RandomDen)

\* Math.min(w, h) * 0.1
Padding(r, s) == Min(r.w, r.h) * 8 * RandomDen * s

\* (random(i * 2) - 0.5) * dim * 0.3
Perpendicular(k, dim, s) == (2 * k - RandomDen) * dim * 12 * s

\* (random(i * 3 + 10) - 0.5) * Math.min(w, h) * 0.15
Jitter(k, r, s) == (2 * k - RandomDen) * Min(r.w, r.h) * 6 * s

\* (random(i * 4 + 15) - 0.5) * Math.min(w, h) * 0.1
KinkJitter(k, r, s) == (2 * k - RandomDen) * Min(r.w, r.h) * 4 * s

\* The side t = i / segments falls on: 0 top, 1 right, 2 bottom, 3 left.
Side(i, s) ==
    IF 4 * i < s THEN 0 ELSE IF 2 * i < s THEN 1 ELSE IF 4 * i < 3 * s THEN 2 ELSE 3

\* localT * (span - 2 * padding), localT = (t - side / 4) * 4
Along(i, s, span, r) == (4 * i - Side(i, s) * s) * (5 * span - Min(r.w, r.h)) * 16 * RandomDen

\* Math.max(lo, Math.min(hi, v))
ClampNone(lo, hi, v) == v
Clamp(lo, hi, v) == Max(lo, Min(hi, v))

\* x - w * 0.1 and x + w * 1.1 (and the same for y, h)
HaloLow(origin, extent, s) == (10 * origin - extent) * 8 * RandomDen * s
HaloHigh(origin, extent, s) == (10 * origin + 11 * extent) * 8 * RandomDen * s

\* points[i]: lines 187-220.
PerimeterPoint(r, s, i, kA, kB, kC) ==
    LET side == Side(i, s)
        u == Unit(s)
        pad == Padding(r, s)
        px == CASE side = 0 -> r.x * u + pad + Along(i, s, r.w, r)
                [] side = 1 -> (r.x + r.w) * u - pad + Perpendicular(kA, r.w, s)
                [] side = 2 -> (r.x + r.w) * u - pad - Along(i, s, r.w, r)
                [] side = 3 -> r.x * u + pad + Perpendicular(kA, r.w, s)
        py == CASE side = 0 -> r.y * u + pad + Perpendicular(kA, r.h, s)
                [] side = 1 -> r.y * u + pad + Along(i, s, r.h, r)
                [] side = 2 -> (r.y + r.h) * u - pad + Perpendicular(kA, r.h, s)
                [] side = 3 -> (r.y + r.h) * u - pad - Along(i, s, r.h, r)
    IN  [x |-> Clamp(HaloLow(r.x, r.w, s), HaloHigh(r.x, r.w, s), px + Jitter(kB, r, s)),
         y |-> Clamp(HaloLow(r.y, r.h, s), HaloHigh(r.y, r.h, s), py + Jitter(kC, r, s))]

\* random(i * 5 + 20) > 0.7
KinkDrawn(k) == 10 * k > 7 * RandomDen

\* midX, midY: lines 233-234.
KinkPoint(r, s, prevPoint, currentPoint, kX, kY) ==
    [x |-> ((currentPoint.x + prevPoint.x) \div 2) + KinkJitter(kX, r, s),
     y |-> ((currentPoint.y + prevPoint.y) \div 2) + KinkJitter(kY, r, s)]

PathOp(kind, p) == [kind |-> kind, x |-> p.x, y |-> p.y]

\* ctx.beginPath(); segments; padding
PathBegin ==
    /\ pc = "path"
    /\ \E k0 \in RandomLevels :
          /\ random0' = k0
          /\ segments' = Segments(k0)
    /\ pointIndex' = 0
    /\ pathOps' = <<>>
    /\ pc' = "points"
    /\ UNCHANGED <<compVars, rect, argVars, canvasVars, gridVars, missVars, earlierCalls>>

\* points[0] and ctx.moveTo(points[0].x, points[0].y)
PathMoveTo ==
    /\ pc = "points"
    /\ pointIndex = 0
    /\ \E kB \in RandomLevels, kC \in RandomLevels :
          pathOps' = <<PathOp("moveTo",
                          PerimeterPoint(rect, segments, 0, random0, kB, kC))>>
    /\ pointIndex' = 1
    /\ UNCHANGED <<compVars, pc, rect, segments, random0, argVars, canvasVars, gridVars,
                   missVars, earlierCalls>>

\* points[i], i >= 1, and the second loop's iteration i: the kink, if drawn,
\* and ctx.lineTo(currentPoint.x, currentPoint.y).  The source fills points
\* first and draws afterwards; points[i] depends on i alone, so the entry is
\* computed here, when the drawing loop first reads it.
PathLineTo ==
    /\ pc = "points"
    /\ 0 < pointIndex /\ pointIndex < segments
    /\ \E kA \in RandomLevels, kB \in RandomLevels, kC \in RandomLevels,
          kK \in RandomLevels, kX \in RandomLevels, kY \in RandomLevels :
          LET prevPoint == pathOps[Len(pathOps)]
              currentPoint == PerimeterPoint(rect, segments, pointIndex, kA, kB, kC)
          IN  pathOps' =
                 IF KinkDrawn(kK)
                 THEN <<PathOp("kink", KinkPoint(rect, segments, prevPoint, currentPoint, kX, kY)),
                        PathOp("lineTo", currentPoint)>>
                 ELSE <<PathOp("lineTo", currentPoint)>>
    /\ pointIndex' = pointIndex + 1
    /\ UNCHANGED <<compVars, pc, rect, segments, random0, argVars, canvasVars, gridVars,
                   missVars, earlierCalls>>

\* ctx.closePath()
PathClose ==
    /\ pc = "points"
    /\ pointIndex = segments
    /\ pc' = "pathClosed"
    /\ UNCHANGED <<compVars, pathVars, argVars, canvasVars, gridVars, missVars, earlierCalls>>

Rectangle(x, y, w, h) == [x |-> x, y |-> y, w |-> w, h |-> h]
Rectangles == {Rectangle(200, 100, 100, 100), Rectangle(0, 0, 200, 100),
               Rectangle(100, 200, 100, 200)}

InitAbstract ==
    /\ pc = "path"
    /\ rect \in Rectangles
    /\ segments = 0
    /\ random0 = 0
    /\ pointIndex = 0
    /\ pathOps = <<>>
    /\ img = DefaultImage
    /\ settings = [DefaultSettings EXCEPT !.pieceStyle = "abstract"]
    /\ usedShapeSeed = 1
    /\ CanvasIdle
    /\ GridIdle
    /\ MissingIdle
    /\ earlierCalls = FALSE
    /\ ComponentIdle

NextAbstract == PathBegin \/ PathMoveTo \/ PathLineTo \/ PathClose

SpecAbstract == InitAbstract /\ [][NextAbstract]_vars

\* ------------------------------------------------------ missing-set selector
\* const totalPieces = settings.rows * settings.columns
TotalPieces(s) == s.rows * s.columns

\* Math.floor(totalPieces * settings.missingPercentage / 100)
MissingCountCeil(s) == (TotalPieces(s) * s.missingPercentage + 99) \div 100
MissingCount(s) == (TotalPieces(s) * s.missingPercentage) \div 100

\* Math.floor(Math.random() * totalPieces): Math.random() is in [0, 1), and it
\* reads neither the shape seed nor anything an earlier call left behind.
RandomIndexSeeded(total) == {usedShapeSeed % total}
RandomIndex(total) == IF total > 0 THEN 0..(total - 1) ELSE {0}

\* new Set<number>()
NewSet == {}

\* missingIndices.add(index)
SetAddNothing(set, index) == set
SetAdd(set, index) == set \cup {index}

\* missingIndices.size
SetSize(set) == Cardinality(set)

Percentages == {MinMissingPercentage, 34, MaxMissingPercentage}
PieceStyles == {"classic", "abstract"}
ShapeSeeds == {1, 2}

\* The selector reads rows, columns and missingPercentage only; the style is
\* held at the one whose paths read the shape seed.
MissingSettings ==
    {[DefaultSettings EXCEPT !.columns = c, !.rows = r,
                             !.missingPercentage = p, !.pieceStyle = "abstract"] :
        c \in MinColumns..BoundColumns, r \in MinRows..BoundRows,
        p \in Percentages}

\* The callback is run for (s, seed) and reaches line 364.
MissingEnter(s, seed) ==
    /\ pc = "idle"
    /\ settings' = s
    /\ usedShapeSeed' = seed
    /\ pc' = "missing"
    /\ UNCHANGED <<compVars, img, canvasVars, gridVars, missVars, earlierCalls, pathVars>>

\* Lines 364-366: the three declarations ahead of the loop.
MissingSetup ==
    /\ pc = "missing"
    /\ totalPieces' = TotalPieces(settings)
    /\ missingCount' = MissingCount(settings)
    /\ missingIndices' = NewSet
    /\ pc' = "select"
    /\ UNCHANGED <<compVars, argVars, canvasVars, gridVars, earlierCalls, pathVars>>

\* missingIndices.size < missingCount
WhileConditionInclusive(size, count) == size <= count
WhileCondition(size, count) == size < count

\* while (missingIndices.size < missingCount) missingIndices.add(...)
MissingDraw ==
    /\ pc = "select"
    /\ WhileCondition(SetSize(missingIndices), missingCount)
    /\ \E index \in RandomIndex(totalPieces) :
          missingIndices' = SetAdd(missingIndices, index)
    /\ UNCHANGED <<compVars, pc, argVars, totalPieces, missingCount,
                   canvasVars, gridVars, earlierCalls, pathVars>>

MissingExit ==
    /\ pc = "select"
    /\ ~WhileCondition(SetSize(missingIndices), missingCount)
    /\ pc' = "selected"
    /\ UNCHANGED <<compVars, argVars, canvasVars, missVars, gridVars, earlierCalls, pathVars>>

\* The rest of the callback runs and returns; its locals are gone.
MissingReturn ==
    /\ pc = "selected"
    /\ pc' = "idle"
    /\ earlierCalls' = TRUE
    /\ UNCHANGED <<compVars, argVars, canvasVars, missVars, gridVars, pathVars>>

InitMissing ==
    /\ pc = "idle"
    /\ img = DefaultImage
    /\ settings = DefaultSettings
    /\ usedShapeSeed = 1
    /\ CanvasIdle
    /\ GridIdle
    /\ MissingIdle
    /\ earlierCalls = FALSE
    /\ ComponentIdle
    /\ PathIdle

NextMissing ==
    \/ \E s \in MissingSettings, seed \in ShapeSeeds : MissingEnter(s, seed)
    \/ MissingSetup
    \/ MissingDraw
    \/ MissingExit
    \/ MissingReturn

SpecMissing == InitMissing /\ [][NextMissing]_vars

\* The loop with a fair random source: a draw that would add a new index is
\* not put off forever, and the loop test is eventually taken.
SpecMissingFair == SpecMissing /\ WF_vars(MissingDraw) /\ WF_vars(MissingExit)


\* -------------------------------------------------------------- generation
\* The whole of generatePuzzles: the call (lines 87-91) and its deferred
\* callback (lines 92-423), one action per block of the callback.  The images
\* and grids of Spec divide evenly, so that every coordinate is an integer and
\* double arithmetic on it is exact.

\* currentShapeSeed || shapeSeed: 0 is falsy
UsedShapeSeed(currentShapeSeed) ==
    IF currentShapeSeed # 0 THEN currentShapeSeed ELSE shapeSeed

Sum(a, b) == Rational(a.num * b.den + b.num * a.den, a.den * b.den)
Less(a, b) == a.num * b.den < b.num * a.den
Positive(a) == a.num > 0

\* const pieceWidth = width / settings.columns
PieceWidth(s) == Rational(width.num, width.den * s.columns)
\* const pieceHeight = height / settings.rows
PieceHeight(s) == Rational(height.num, height.den * s.rows)

\* const x = col * pieceWidth; const y = row * pieceHeight
PieceRect(s, r, c) ==
    [x |-> Rational(c * width.num, width.den * s.columns),
     y |-> Rational(r * height.num, height.den * s.rows),
     w |-> PieceWidth(s), h |-> PieceHeight(s)]

\* The pairs <<length, count>>, among the lengths {600, 900, 1000} and the
\* counts 2..12, for which the doubles of (count - 1) * (length / count)
\* + length / count round to a value below length: 6 * (600 / 7) + 600 / 7
\* is 599.9999999999999, and 1000 over 6 or 11 parts ends at 999.9999999999999.
RoundsBelow == {<<600, 7>>, <<1000, 6>>, <<1000, 11>>}

\* x + w < width (and y + h < height), in doubles, for start = k * extent and
\* extent = total / count with total an integer.  Where the exact sum is
\* below total the doubles agree; where it equals total the doubles decide.
EndsBefore(start, extent, total) ==
    \/ Less(Sum(start, extent), total)
    \/ /\ total.den = 1
       /\ <<total.num, extent.den>> \in RoundsBelow

\* One side of drawRealisticPuzzlePiece: if (flag && inside) a bump away from
\* the piece; else if (!flag && inside) a bump into it; else one lineTo.
ClassicEdge(flag, inside) ==
    IF flag /\ inside THEN "tab"
    ELSE IF ~flag /\ inside THEN "blank"
    ELSE "straight"

\* drawRealisticPuzzlePiece(ctx, x, y, w, h, tabs): the path is fixed by the
\* rectangle and the shape of its four sides.
ClassicPath(rectangle, tabs) ==
    [style |-> "classic", rect |-> rectangle,
     top    |-> ClassicEdge(tabs.top, Positive(rectangle.y)),
     right  |-> ClassicEdge(tabs.right, EndsBefore(rectangle.x, rectangle.w, width)),
     bottom |-> ClassicEdge(tabs.bottom, EndsBefore(rectangle.y, rectangle.h, height)),
     left   |-> ClassicEdge(tabs.left, Positive(rectangle.x))]

\* Where the middle of a side's bump lies, seen from the side's line: the
\* top bump peaks at y - tabRadius * 1.2 for a tab and y + tabRadius * 1.2
\* for a blank, the right one at x + w + ... for a tab and x + w - ... for a
\* blank, the bottom one at y + h + ... and y + h - ..., the left one at
\* x - ... and x + ....
Bulge(side, shape) ==
    IF shape = "straight" THEN "none"
    ELSE CASE side = "top" -> IF shape = "tab" THEN "up" ELSE "down"
           [] side = "right" -> IF shape = "tab" THEN "right" ELSE "left"
           [] side = "bottom" -> IF shape = "tab" THEN "down" ELSE "up"
           [] side = "left" -> IF shape = "tab" THEN "left" ELSE "right"

\* const seed = usedShapeSeed + row * settings.columns + col + 1
PieceSeed(seed, s, r, c) == seed + r * s.columns + c + 1

\* drawAbstractPuzzlePiece(ctx, x, y, w, h, seed): random(index) and every
\* point are computed from the six arguments alone.
AbstractPath(rectangle, seed) == [style |-> "abstract", rect |-> rectangle, seed |-> seed]

\* if (settings.pieceStyle === 'abstract') ... else ...
PiecePathClassic(s, grid, seed, r, c) == ClassicPath(PieceRect(s, r, c), grid[<<r, c>>])
PiecePath(s, grid, seed, r, c) ==
    IF s.pieceStyle = "abstract"
    THEN AbstractPath(PieceRect(s, r, c), PieceSeed(seed, s, r, c))
    ELSE ClassicPath(PieceRect(s, r, c), grid[<<r, c>>])

\* ctx.strokeStyle = settings.borderColor; ctx.lineWidth = 2; ...; ctx.stroke()
Stroke(s, path) ==
    [op |-> "stroke", strokeStyle |-> s.borderColor, lineWidth |-> 2, path |-> path]

\* ctx.globalCompositeOperation = 'destination-out'; ...; ctx.fill()
Fill(path) == [op |-> "fill", composite |-> "destination-out", path |-> path]

\* The two nested loops that stroke every piece, row by row, from cell k on.
RECURSIVE StrokePieces(_, _, _, _)
StrokePieces(s, grid, seed, k) ==
    IF k >= TotalPieces(s) THEN <<>>
    ELSE <<Stroke(s, PiecePath(s, grid, seed, k \div s.columns, k % s.columns))>>
         \o StrokePieces(s, grid, seed, k + 1)

\* const row = Math.floor(index / settings.columns)
IndexRowByRows(s, index) == index \div s.rows
IndexRow(s, index) == index \div s.columns
\* const col = index % settings.columns
IndexCol(s, index) == index % s.columns

\* missingIndices.forEach visits the indices in the order they were added:
\* every order of the set is the insertion order of some run of the loop.
InsertionOrders(set) ==
    {f \in [1..Cardinality(set) -> set] :
        \A i, j \in 1..Cardinality(set) : i # j => f[i] # f[j]}

\* The body of the forEach, for the indices in the given order.
CutPieces(s, grid, seed, order) ==
    [i \in 1..Len(order) |->
        Fill(PiecePath(s, grid, seed, IndexRow(s, order[i]), IndexCol(s, order[i])))]

\* Lines 134-144 as one step: every cell gets its object literal.  The coin
\* outcomes of a build are taken the same at every cell.
RandomPass(s, coins) == [rc \in Cells(s) |-> InitialPiece(s, rc[1], rc[2], coins)]

\* Lines 147-161 as one step: the body is applied cell after cell from cell k.
RECURSIVE PropagationPass(_, _, _)
PropagationPass(s, grid, k) ==
    IF k >= TotalPieces(s) THEN grid
    ELSE PropagationPass(s, PropagateFrom(s, grid, k \div s.columns, k % s.columns), k + 1)

\* ---------------------------------------------------- classic piece path
\* drawRealisticPuzzlePiece for one cell, one side at a time.  pathOps
\* collects the sides as they are emitted.
ClassicSide(side, shape) == [side |-> side, shape |-> shape]

\* Lines 256-259: beginPath and moveTo(x, y)
ClassicBegin ==
    /\ pc = "classic"
    /\ rect' = PieceRect(settings, row, col)
    /\ pathOps' = <<>>
    /\ pc' = "top"
    /\ UNCHANGED <<compVars, segments, random0, pointIndex, argVars, canvasVars,
                   gridVars, missVars, earlierCalls>>

\* Lines 261-278
ClassicTop ==
    /\ pc = "top"
    /\ pathOps' = Append(pathOps,
                         ClassicSide("top", ClassicPath(rect, piecePattern[<<row, col>>]).top))
    /\ pc' = "right"
    /\ UNCHANGED <<compVars, rect, segments, random0, pointIndex, argVars, canvasVars,
                   gridVars, missVars, earlierCalls>>

\* Lines 280-297
ClassicRight ==
    /\ pc = "right"
    /\ pathOps' = Append(pathOps,
                         ClassicSide("right", ClassicPath(rect, piecePattern[<<row, col>>]).right))
    /\ pc' = "bottom"
    /\ UNCHANGED <<compVars, rect, segments, random0, pointIndex, argVars, canvasVars,
                   gridVars, missVars, earlierCalls>>

\* Lines 299-316
ClassicBottom ==
    /\ pc = "bottom"
    /\ pathOps' = Append(pathOps,
                         ClassicSide("bottom", ClassicPath(rect, piecePattern[<<row, col>>]).bottom))
    /\ pc' = "left"
    /\ UNCHANGED <<compVars, rect, segments, random0, pointIndex, argVars, canvasVars,
                   gridVars, missVars, earlierCalls>>

\* Lines 318-337: the left side, then closePath
ClassicLeft ==
    /\ pc = "left"
    /\ pathOps' = Append(pathOps,
                         ClassicSide("left", ClassicPath(rect, piecePattern[<<row, col>>]).left))
    /\ pc' = "classicClosed"
    /\ UNCHANGED <<compVars, rect, segments, random0, pointIndex, argVars, canvasVars,
                   gridVars, missVars, earlierCalls>>

\* The calls of SpecClassic: canvases that need no scaling, grids up to seven
\* columns, every cell, and every flag value the grid builder can leave there.
ClassicLengths == {600, 900, 1000}
ClassicColumns == {3, 6, 7}

InitClassic ==
    /\ pc = "classic"
    /\ img = DefaultImage
    /\ settings \in {[DefaultSettings EXCEPT !.columns = c, !.rows = 3] : c \in ClassicColumns}
    /\ usedShapeSeed = 1
    /\ width \in {Rational(w, 1) : w \in ClassicLengths}
    /\ height = Rational(600, 1)
    /\ newCompleteCanvas = NoCanvas
    /\ newMissingCanvas = NoCanvas
    /\ row \in 0..(settings.rows - 1)
    /\ col \in 0..(settings.columns - 1)
    /\ tabsDrawn = 0
    /\ writes = <<>>
    /\ \E coins \in CoinOutcomes :
          piecePattern = (<<row, col>> :> InitialPiece(settings, row, col, coins))
    /\ MissingIdle
    /\ earlierCalls = FALSE
    /\ ComponentIdle
    /\ PathIdle

NextClassic == ClassicBegin \/ ClassicTop \/ ClassicRight \/ ClassicBottom \/ ClassicLeft

SpecClassic == InitClassic /\ [][NextClassic]_vars

\* setTimeout(callback, 100): the delays being equal, the timers expire in the
\* order they were set.
EnqueueFront(queue, timer) == <<timer>> \o queue
Enqueue(queue, timer) == Append(queue, timer)

\* Lines 87-91: the synchronous part of generatePuzzles.  The callback closes
\* over the three parameters and usedShapeSeed.
CallGeneratePuzzles(i, s, currentShapeSeed) ==
    /\ pc = "idle"
    /\ isProcessing' = TRUE
    /\ timers' = Enqueue(timers, [img |-> i, settings |-> s,
                                  currentShapeSeed |-> currentShapeSeed,
                                  usedShapeSeed |-> UsedShapeSeed(currentShapeSeed)])
    /\ lastIssued' = <<i, s, UsedShapeSeed(currentShapeSeed)>>
    /\ UNCHANGED <<pc, argVars, canvasVars, gridVars, missVars, earlierCalls, pathVars,
                   completeCanvas, missingCanvas, pieceStats, shapeSeed,
                   published, lastArgs>>

\* generatePuzzles called by a caller that changes nothing else.
GeneratePuzzles(i, s, currentShapeSeed) ==
    /\ CallGeneratePuzzles(i, s, currentShapeSeed)
    /\ UNCHANGED uiVars

\* The oldest timer expires and its callback starts.
TimerFire ==
    /\ pc = "idle"
    /\ timers # <<>>
    /\ img' = Head(timers).img
    /\ settings' = Head(timers).settings
    /\ usedShapeSeed' = Head(timers).usedShapeSeed
    /\ timers' = Tail(timers)
    /\ published' = {}
    /\ pc' = "canvas"
    /\ UNCHANGED <<canvasVars, gridVars, missVars, earlierCalls, pathVars, hookVars,
                   lastArgs, lastIssued, uiVars>>

\* Lines 131-161: the pattern is built, whatever the piece style.
BuildGrid ==
    /\ pc = "grid"
    /\ \E coins \in CoinOutcomes :
          piecePattern' = PropagationPass(settings, RandomPass(settings, coins), 0)
    /\ pc' = "strokeComplete"
    /\ UNCHANGED <<row, col, tabsDrawn, writes, argVars, canvasVars, missVars, earlierCalls,
                   pathVars, compVars>>

\* Lines 340-361: every piece is stroked on the complete canvas.
StrokeComplete ==
    /\ pc = "strokeComplete"
    /\ newCompleteCanvas' =
          [newCompleteCanvas EXCEPT
              !.ops = @ \o StrokePieces(settings, piecePattern, usedShapeSeed, 0)]
    /\ pc' = "missing"
    /\ UNCHANGED <<width, height, newMissingCanvas, argVars, gridVars, missVars,
                   earlierCalls, pathVars, compVars>>

\* { total: totalPieces, missing: missingCount }
PieceStatsSwapped(total, missing) == [total |-> missing, missing |-> total]
PieceStats(total, missing) == [total |-> total, missing |-> missing]

\* Line 373: setPieceStats({ total: totalPieces, missing: missingCount })
SetPieceStats ==
    /\ pc = "selected"
    /\ pieceStats' = {PieceStats(totalPieces, missingCount)}
    /\ published' = published \cup {"pieceStats"}
    /\ pc' = "cut"
    /\ UNCHANGED <<argVars, canvasVars, gridVars, missVars, earlierCalls, pathVars,
                   isProcessing, completeCanvas, missingCanvas, shapeSeed, timers,
                   lastArgs, lastIssued, uiVars>>

\* Lines 376-396: one destination-out fill per missing index.
CutHoles ==
    /\ pc = "cut"
    /\ \E order \in InsertionOrders(missingIndices) :
          newMissingCanvas' =
             [newMissingCanvas EXCEPT
                 !.ops = @ \o CutPieces(settings, piecePattern, usedShapeSeed, order)]
    /\ pc' = "strokeMissing"
    /\ UNCHANGED <<width, height, newCompleteCanvas, argVars, gridVars, missVars,
                   earlierCalls, pathVars, compVars>>

\* Lines 399-419: every piece is stroked on the missing canvas.
StrokeMissing ==
    /\ pc = "strokeMissing"
    /\ newMissingCanvas' =
          [newMissingCanvas EXCEPT
              !.ops = @ \o StrokePieces(settings, piecePattern, usedShapeSeed, 0)]
    /\ pc' = "publish"
    /\ UNCHANGED <<width, height, newCompleteCanvas, argVars, gridVars, missVars,
                   earlierCalls, pathVars, compVars>>

\* The callback is left, by its last line or by an exception: its locals and
\* the arguments it closed over are gone.
CallbackLeft ==
    /\ pc' = "idle"
    /\ img' = DefaultImage
    /\ settings' = DefaultSettings
    /\ usedShapeSeed' = 1
    /\ width' = Rational(0, 1)
    /\ height' = Rational(0, 1)
    /\ newCompleteCanvas' = NoCanvas
    /\ newMissingCanvas' = NoCanvas
    /\ piecePattern' = <<>>
    /\ totalPieces' = 0
    /\ missingCount' = 0
    /\ missingIndices' = {}
    /\ UNCHANGED <<row, col, tabsDrawn, writes, earlierCalls, pathVars>>

\* Lines 421-423: setCompleteCanvas, setMissingCanvas, setIsProcessing(false)
Publish ==
    /\ pc = "publish"
    /\ completeCanvas' = newCompleteCanvas
    /\ missingCanvas' = newMissingCanvas
    /\ isProcessing' = FALSE
    /\ published' = published \cup {"completeCanvas", "missingCanvas"}
    /\ lastArgs' = <<img, settings, usedShapeSeed>>
    /\ CallbackLeft
    /\ UNCHANGED <<pieceStats, shapeSeed, timers, lastIssued, uiVars>>

\* Where a canvas call is about to be made.  At "canvas" getContext('2d') can
\* return null, and drawImage on null throws; at the other places a drawing
\* call of the block can throw.  Nothing catches inside the callback.
DrawingPlaces == {"canvas", "strokeComplete", "cut", "strokeMissing"}

CallbackThrows ==
    /\ pc \in DrawingPlaces
    /\ CallbackLeft
    /\ UNCHANGED compVars

\* The requests of Spec: an image that needs no scaling, grids that divide it
\* evenly, and one configuration below the slider minimum of columns.
GenRequest(s, seed) == [img |-> DefaultImage, settings |-> s, currentShapeSeed |-> seed]
GenRequests ==
    {GenRequest(PuzzleSettings(3, 3, MinMissingPercentage, "classic", "#000000", "high"), 7),
     GenRequest(PuzzleSettings(2, 3, MinMissingPercentage, "classic", "#000000", "high"), 7),
     GenRequest(PuzzleSettings(4, 3, MinMissingPercentage, "abstract", "#000000", "high"), 7)}
    \cup {GenRequest(PuzzleSettings(3, 3, MinMissingPercentage, "abstract", "#000000", "high"),
                     seed) : seed \in {0, 1, 7}}

Init ==
    /\ pc = "idle"
    /\ img = DefaultImage
    /\ settings = DefaultSettings
    /\ usedShapeSeed = 1
    /\ CanvasIdle
    /\ GridIdle
    /\ MissingIdle
    /\ earlierCalls = FALSE
    /\ ComponentIdle
    /\ PathIdle

\* One request at a time: generatePuzzles is called again only when the
\* callback of the call before has run.
Next ==
    \/ \E request \in GenRequests :
          /\ timers = <<>>
          /\ GeneratePuzzles(request.img, request.settings, request.currentShapeSeed)
    \/ TimerFire
    \/ CreateCanvases
    \/ BuildGrid
    \/ StrokeComplete
    \/ MissingSetup
    \/ MissingDraw
    \/ MissingExit
    \/ SetPieceStats
    \/ CutHoles
    \/ StrokeMissing
    \/ Publish
    \/ CallbackThrows

Spec == Init /\ [][Next]_vars

\* ------------------------------------------------------ overlapping requests
\* generatePuzzles is called again while timers of earlier calls are pending,
\* as when a slider is dragged: every onChange calls it at once.
OverlapRequests ==
    {GenRequest(PuzzleSettings(3, 3, MinMissingPercentage, "classic", "#000000", "high"), 7),
     GenRequest(PuzzleSettings(4, 3, MinMissingPercentage, "abstract", "#000000", "high"), 7)}

NextOverlap ==
    \/ \E request \in OverlapRequests :
          /\ Len(timers) < MaxPending
          /\ GeneratePuzzles(request.img, request.settings, request.currentShapeSeed)
    \/ TimerFire
    \/ CreateCanvases
    \/ BuildGrid
    \/ StrokeComplete
    \/ MissingSetup
    \/ MissingDraw
    \/ MissingExit
    \/ SetPieceStats
    \/ CutHoles
    \/ StrokeMissing
    \/ Publish
    \/ CallbackThrows

SpecOverlap == Init /\ [][NextOverlap]_vars

\* ------------------------------------------------------------ the handlers
\* SpecUI follows the event handlers of the component up to the timers they
\* register; the callbacks of those timers are the ones of Spec and are not
\* run here.  A handler is a closure of some render: it reads the state of
\* that render.  The inline handlers of the sliders and buttons and, through
\* their dependency lists, generateNew and generateNewShapes are closures of
\* the latest render.  processImageFile is re-created only when settings
\* changes (its dependency list is [settings]), so the shapeSeed it reads is
\* the one of the render in which settings last changed: capturedShapeSeed.
\* handleImageUpload is created once (dependency list []) and calls the
\* processImageFile of the first render, which reads the initial settings and
\* the shapeSeed of the mount.  The load of the chosen file (img.onload) is
\* taken together with the choice.

\* Largest Date.now() value minted.
MaxShapeSeed == 3

\* Files the user can choose.
UIImages == {DefaultImage, Image(2, 600, 600)}

\* Values the columns slider and the piece style buttons can be set to.
UIColumns == {4, DefaultSettings.columns}
UIPieceStyles == {"classic", "abstract"}

\* if (image) generatePuzzles(image, s, seed), with the component state the
\* handler has set.
GenerateIfImage(s, seed) ==
    IF image # NoImage
       THEN CallGeneratePuzzles(image, s, seed)
       ELSE UNCHANGED <<pc, argVars, canvasVars, gridVars, missVars, earlierCalls,
                        pathVars, hookVars, timers, published, lastArgs, lastIssued>>

\* Lines 509-513, 527-531, 545-549, 560-564, ...: an inline handler builds
\* newSettings from the settings of the latest render, sets it and
\* regenerates.  The render that follows re-creates processImageFile.
ChangeSettings(newSettings) ==
    /\ newSettings # stateSettings
    /\ stateSettings' = newSettings
    /\ capturedShapeSeed' = stateShapeSeed
    /\ GenerateIfImage(newSettings, stateShapeSeed)
    /\ UNCHANGED <<image, stateShapeSeed>>

ChangeColumns(value) ==
    ChangeSettings([stateSettings EXCEPT !.columns = value])

ChangePieceStyle(style) ==
    ChangeSettings([stateSettings EXCEPT !.pieceStyle = style])

\* Lines 434-438, behind the button of line 725 (disabled={!image}) when the
\* style is classic.
GenerateNew ==
    /\ image # NoImage
    /\ stateSettings.pieceStyle = "classic"
    /\ GenerateIfImage(stateSettings, stateShapeSeed)
    /\ UNCHANGED uiVars

\* Lines 440-446, behind the same button when the style is abstract: a new
\* seed is minted, set, and passed on.  settings is unchanged, so
\* processImageFile is not re-created.
GenerateNewShapes(newShapeSeed) ==
    /\ image # NoImage
    /\ stateSettings.pieceStyle = "abstract"
    /\ stateShapeSeed' = newShapeSeed
    /\ GenerateIfImage(stateSettings, newShapeSeed)
    /\ UNCHANGED <<image, stateSettings, capturedShapeSeed>>

\* Lines 42-47 and 49-61: the file input.  The processImageFile called is the
\* one of the first render.
HandleImageUpload(file) ==
    /\ image' = file
    /\ CallGeneratePuzzles(file, DefaultSettings, shapeSeed)
    /\ UNCHANGED <<stateSettings, stateShapeSeed, capturedShapeSeed>>

\* Lines 73-85 and 49-61: drag and drop.  The processImageFile called is the
\* one created when settings last changed.
HandleDrop(file) ==
    /\ image' = file
    /\ CallGeneratePuzzles(file, stateSettings, capturedShapeSeed)
    /\ UNCHANGED <<stateSettings, stateShapeSeed, capturedShapeSeed>>

NextUI ==
    \/ \E value \in UIColumns :
          /\ Len(timers) < MaxPending
          /\ ChangeColumns(value)
    \/ \E style \in UIPieceStyles :
          /\ Len(timers) < MaxPending
          /\ ChangePieceStyle(style)
    \/ /\ Len(timers) < MaxPending
       /\ GenerateNew
    \/ \E newShapeSeed \in (stateShapeSeed + 1)..MaxShapeSeed :
          /\ Len(timers) < MaxPending
          /\ GenerateNewShapes(newShapeSeed)
    \/ \E file \in UIImages :
          /\ Len(timers) < MaxPending
          /\ HandleImageUpload(file)
    \/ \E file \in UIImages :
          /\ Len(timers) < MaxPending
          /\ HandleDrop(file)

SpecUI == Init /\ [][NextUI]_vars

\* ------------------------------------------------------------------ claims

\* C1: once the random pass and the propagation pass have both completed,
\* every horizontally adjacent pair has left = !right and every vertically
\* adjacent pair has top = !bottom.
C1_NeighbourConsistency ==
    pc = "gridBuilt" =>
        \A rc \in Cells(settings) :
            /\ rc[2] < settings.columns - 1 =>
                  piecePattern[<<rc[1], rc[2] + 1>>].left = ~piecePattern[rc].right
            /\ rc[1] < settings.rows - 1 =>
                  piecePattern[<<rc[1] + 1, rc[2]>>].top = ~piecePattern[rc].bottom

C1_Witness ==
    /\ pc = "gridBuilt"
    /\ settings.rows >= 3 /\ settings.columns >= 3
    /\ piecePattern[<<1, 1>>].right /\ ~piecePattern[<<1, 2>>].left
    /\ ~piecePattern[<<1, 0>>].right /\ piecePattern[<<1, 1>>].left
    /\ piecePattern[<<0, 1>>].bottom /\ ~piecePattern[<<1, 1>>].top

\* C2: in every state of the grid build, during and after the random pass and
\* during and after the propagation pass, each cell that exists has false on
\* every flag that faces the outside of the grid.
C2_BoundaryFlagsFalse ==
    \A rc \in DOMAIN piecePattern :
        /\ rc[1] = 0 => ~piecePattern[rc].top
        /\ rc[2] = settings.columns - 1 => ~piecePattern[rc].right
        /\ rc[1] = settings.rows - 1 => ~piecePattern[rc].bottom
        /\ rc[2] = 0 => ~piecePattern[rc].left

C2_Witness ==
    /\ pc = "gridBuilt"
    /\ piecePattern[<<0, 1>>].left
    /\ piecePattern[<<1, 0>>].top
    /\ ~piecePattern[<<0, 1>>].top /\ ~piecePattern[<<1, 0>>].left
\* C3: when the selection loop has exited, missingCount is the floor of
\* rows*columns*missingPercentage/100 and the missing set holds exactly
\* missingCount distinct indices, each in [0, rows*columns).
C3_MissingSetSize ==
    pc = "selected" =>
        /\ 100 * missingCount <= settings.rows * settings.columns * settings.missingPercentage
        /\ settings.rows * settings.columns * settings.missingPercentage < 100 * (missingCount + 1)
        /\ Cardinality(missingIndices) = missingCount
        /\ missingIndices \subseteq 0..(settings.rows * settings.columns - 1)

C3_Witness ==
    /\ pc = "selected"
    /\ settings.rows = 3 /\ settings.columns = 3
    /\ settings.missingPercentage = MaxMissingPercentage
    /\ missingIndices = {0, 2, 4, 6, 8}

\* C8: whatever earlier generations left behind and whatever the shape seed,
\* the next call can be made for any configuration and starts from the empty
\* set, and while the set is short of missingCount every index of
\* [0, rows*columns) can be the next one drawn; so every subset of that size
\* is a possible missing set of the call.
C8_FreshAndSeedFree ==
    /\ pc = "idle" =>
          \A s \in MissingSettings, seed \in ShapeSeeds : ENABLED MissingEnter(s, seed)
    /\ pc = "missing" => ENABLED (MissingSetup /\ missingIndices' = {})
    /\ (pc = "select" /\ Cardinality(missingIndices) < missingCount) =>
          \A index \in 0..(settings.rows * settings.columns - 1) :
              ENABLED (MissingDraw /\ missingIndices' = missingIndices \cup {index})

C8_Witness ==
    /\ earlierCalls
    /\ pc = "selected"
    /\ usedShapeSeed = 2
    /\ settings.pieceStyle = "abstract"
    /\ settings.missingPercentage = 34
    /\ missingIndices = {1, 5, 6}
\* C5: once the canvases are sized, their width and height are no larger than
\* the source image's, and no larger than the tier's cap for fast, standard
\* and high; under original they equal the source's.
C5_ScalingNeverGrows ==
    pc = "grid" =>
        /\ newCompleteCanvas.width <= img.width
        /\ newCompleteCanvas.height <= img.height
        /\ settings.outputQuality = "fast" =>
              newCompleteCanvas.width <= 800 /\ newCompleteCanvas.height <= 600
        /\ settings.outputQuality = "standard" =>
              newCompleteCanvas.width <= 1280 /\ newCompleteCanvas.height <= 720
        /\ settings.outputQuality = "high" =>
              newCompleteCanvas.width <= 1920 /\ newCompleteCanvas.height <= 1080
        /\ settings.outputQuality = "original" =>
              newCompleteCanvas.width = img.width /\ newCompleteCanvas.height = img.height
        /\ newMissingCanvas.width = newCompleteCanvas.width
        /\ newMissingCanvas.height = newCompleteCanvas.height

C5_Witness ==
    /\ pc = "grid"
    /\ settings.outputQuality = "fast"
    /\ img.width = 1600 /\ img.height = 1200
    /\ newCompleteCanvas.width = 800 /\ newCompleteCanvas.height = 600
InHalo(op, margin) ==
    /\ HaloLow(rect.x, rect.w, segments) - margin <= op.x
    /\ op.x <= HaloHigh(rect.x, rect.w, segments) + margin
    /\ HaloLow(rect.y, rect.h, segments) - margin <= op.y
    /\ op.y <= HaloHigh(rect.y, rect.h, segments) + margin

\* C10 as claimed: every point emitted into an abstract path, perimeter point
\* or kink midpoint, has x in [x - 0.1w, x + 1.1w] and y in [y - 0.1h, y + 1.1h].
C10_AllPointsInHalo ==
    \A n \in DOMAIN pathOps : InHalo(pathOps[n], 0)

\* C10 as amended: every perimeter point lies in the halo; a kink midpoint is
\* not clamped and lies within 0.05 * min(w, h) of the halo in each axis.
C10_PerimeterInHaloKinkNear ==
    \A n \in DOMAIN pathOps :
        IF pathOps[n].kind = "kink"
        THEN InHalo(pathOps[n], Min(rect.w, rect.h) * 4 * RandomDen * segments)
        ELSE InHalo(pathOps[n], 0)

C10_Witness ==
    /\ pc = "points"
    /\ Len(pathOps) = 2
    /\ pathOps[1].kind = "kink"
    /\ pathOps[2].x = HaloHigh(rect.x, rect.w, segments)
    /\ ~InHalo(pathOps[1], 0)

\* The arguments the callback in progress was called with.
Request == <<img, settings, usedShapeSeed>>

\* C4 as stated: when a call is about to publish and the rasters on display
\* were published by a call with the same image, configuration and seed,
\* whatever the piece style, the complete raster it publishes is the one on
\* display: the same operations, every cell stroked with the same path.
C4_SameRequestSameComplete ==
    (pc = "publish" /\ lastArgs = Request) => newCompleteCanvas = completeCanvas

\* C4, Abstract style only: when a call with the Abstract style is about to
\* publish and the rasters on display were published by a call with the same
\* image, configuration and seed, the complete raster it publishes is the one
\* on display.
C4_SameRequestSameCompleteAbstract ==
    (pc = "publish" /\ lastArgs = Request /\ settings.pieceStyle = "abstract")
        => newCompleteCanvas = completeCanvas

C4_Witness ==
    /\ pc = "publish"
    /\ lastArgs = Request
    /\ settings.pieceStyle = "abstract"
    /\ settings.columns = 4
    /\ Len(newCompleteCanvas.ops) = 13
    /\ newCompleteCanvas = completeCanvas
    /\ newMissingCanvas # missingCanvas

\* The ranges the three sliders allow.
ValidConfiguration(s) ==
    /\ s.columns >= MinColumns
    /\ s.rows >= MinRows
    /\ s.missingPercentage >= MinMissingPercentage
    /\ s.missingPercentage <= MaxMissingPercentage

\* C6: a call with a configuration outside the valid ranges is stopped before
\* its callback does anything: no statistics and no raster ever come from it.
C6_InvalidConfigurationRejected ==
    /\ (pc # "idle" /\ ~ValidConfiguration(settings)) => (pc = "canvas" /\ published = {})
    /\ lastArgs # <<>> => ValidConfiguration(lastArgs[2])

\* C7: once a callback has been left, by its last line or by an exception, it
\* has published all three of the complete raster, the missing raster and the
\* statistics, or none of them.
C7_AllOrNothing ==
    pc = "idle" =>
        published \in {{}, {"pieceStats", "completeCanvas", "missingCanvas"}}

\* C9: when floor(rows*columns*missingPercentage/100) is 0 the selection loop
\* adds no index, no fill is performed on the missing canvas, and at the end
\* of the drawing the missing canvas has received exactly the operations of
\* the complete canvas: the image, then one stroke per cell; the two rasters
\* such a call publishes hold the same operations.
C9_NoMissingSameOperations ==
    /\ (pc \in {"select", "selected", "cut", "strokeMissing", "publish"}
        /\ (settings.rows * settings.columns * settings.missingPercentage) \div 100 = 0) =>
          /\ missingIndices = {}
          /\ \A i \in 1..Len(newMissingCanvas.ops) : newMissingCanvas.ops[i].op # "fill"
          /\ pc = "publish" =>
                /\ newMissingCanvas.ops = newCompleteCanvas.ops
                /\ Len(newMissingCanvas.ops) = 1 + settings.rows * settings.columns
                /\ newMissingCanvas.ops[1].op = "drawImage"
                /\ \A i \in 2..Len(newMissingCanvas.ops) : newMissingCanvas.ops[i].op = "stroke"
    /\ (lastArgs # <<>>
        /\ (lastArgs[2].rows * lastArgs[2].columns * lastArgs[2].missingPercentage) \div 100 = 0) =>
          missingCanvas.ops = completeCanvas.ops

C9_Witness ==
    /\ pc = "publish"
    /\ settings.rows = 3 /\ settings.columns = 3
    /\ settings.missingPercentage = MinMissingPercentage
    /\ settings.pieceStyle = "classic"
    /\ newMissingCanvas.ops[2].path.right = "tab"
    /\ Len(newMissingCanvas.ops) = 10
    /\ newMissingCanvas.ops = newCompleteCanvas.ops

\* The path stroked for cell (r, c) on a canvas: the image is operation 1 and
\* the strokes of the complete canvas follow row by row.
StrokedPath(canvas, s, r, c) == canvas.ops[2 + r * s.columns + c].path

\* C11: in Classic style, once the complete canvas has been stroked, the two
\* cells on either side of every shared edge draw their bumps toward the same
\* side of that edge, one as a tab and the other as a blank, for horizontal
\* and for vertical neighbours.
C11_ComplementaryBumps ==
    (pc \in {"missing", "select", "selected", "cut", "strokeMissing", "publish"}
     /\ settings.pieceStyle = "classic") =>
        \A rc \in Cells(settings) :
            /\ rc[2] < settings.columns - 1 =>
                  LET here == StrokedPath(newCompleteCanvas, settings, rc[1], rc[2]).right
                      there == StrokedPath(newCompleteCanvas, settings, rc[1], rc[2] + 1).left
                  IN  /\ {here, there} = {"tab", "blank"}
                      /\ Bulge("right", here) = Bulge("left", there)
            /\ rc[1] < settings.rows - 1 =>
                  LET here == StrokedPath(newCompleteCanvas, settings, rc[1], rc[2]).bottom
                      there == StrokedPath(newCompleteCanvas, settings, rc[1] + 1, rc[2]).top
                  IN  /\ {here, there} = {"tab", "blank"}
                      /\ Bulge("bottom", here) = Bulge("top", there)

C11_Witness ==
    /\ pc = "publish"
    /\ settings.pieceStyle = "classic"
    /\ settings.columns = 3
    /\ StrokedPath(newCompleteCanvas, settings, 0, 0).right = "tab"
    /\ StrokedPath(newCompleteCanvas, settings, 0, 1).left = "blank"
    /\ StrokedPath(newCompleteCanvas, settings, 0, 0).bottom = "blank"
    /\ StrokedPath(newCompleteCanvas, settings, 1, 0).top = "tab"

\* Whether a side of cell (r, c) lies on the outer boundary of the image.
OnBoundary(s, r, c, side) ==
    CASE side = "top" -> r = 0
      [] side = "right" -> c = s.columns - 1
      [] side = "bottom" -> r = s.rows - 1
      [] side = "left" -> c = 0

\* C12: when the classic path of a cell is closed, each of its four sides was
\* emitted as a single straight segment if and only if it lies on the outer
\* boundary of the image; every interior side has a bump.
C12_StraightIffBoundary ==
    pc = "classicClosed" =>
        \A i \in 1..Len(pathOps) :
            (pathOps[i].shape = "straight") <=> OnBoundary(settings, row, col, pathOps[i].side)

\* C13: the base seed a pending callback holds is the seed its caller
\* supplied, whatever integer that is; and in Abstract style the path stroked
\* for cell (row, col) carries the seed base + row*columns + col + 1, which no
\* other cell of the grid carries.
C13_PieceSeedFromSuppliedSeed ==
    /\ \A i \in 1..Len(timers) : timers[i].usedShapeSeed = timers[i].currentShapeSeed
    /\ (pc \in {"missing", "select", "selected", "cut", "strokeMissing", "publish"}
        /\ settings.pieceStyle = "abstract") =>
          \A rc \in Cells(settings) :
              /\ StrokedPath(newCompleteCanvas, settings, rc[1], rc[2]).seed
                    = usedShapeSeed + rc[1] * settings.columns + rc[2] + 1
              /\ \A other \in Cells(settings) :
                    other # rc =>
                        StrokedPath(newCompleteCanvas, settings, other[1], other[2]).seed
                            # StrokedPath(newCompleteCanvas, settings, rc[1], rc[2]).seed

\* C14: on the missing canvas the operations that follow the image are first
\* the hole fills, one per missing index and nothing else, and then one stroke
\* per cell in row-major order, each the very stroke the complete canvas
\* received for that cell; the path filled for a missing index i is the path
\* stroked for cell (floor(i / columns), i mod columns).
C14_FillsThenStrokes ==
    /\ pc = "strokeMissing" =>
          /\ Len(newMissingCanvas.ops) = 1 + Cardinality(missingIndices)
          /\ \A j \in 2..Len(newMissingCanvas.ops) : newMissingCanvas.ops[j].op = "fill"
    /\ pc = "publish" =>
          LET n == Cardinality(missingIndices)
              ops == newMissingCanvas.ops
          IN  /\ Len(ops) = 1 + n + settings.rows * settings.columns
              /\ \A j \in 2..(1 + n) :
                    /\ ops[j].op = "fill"
                    /\ \E i \in missingIndices :
                          ops[j].path = StrokedPath(newCompleteCanvas, settings,
                                                    i \div settings.columns,
                                                    i % settings.columns)
              /\ \A i \in missingIndices :
                    \E j \in 2..(1 + n) :
                        ops[j].path = StrokedPath(newCompleteCanvas, settings,
                                                  i \div settings.columns,
                                                  i % settings.columns)
              /\ \A rc \in Cells(settings) :
                    LET k == rc[1] * settings.columns + rc[2]
                    IN  /\ ops[2 + n + k].op = "stroke"
                        /\ ops[2 + n + k] = newCompleteCanvas.ops[2 + k]
                        /\ ops[2 + n + k].path.rect.x
                              = Rational(rc[2] * width.num, width.den * settings.columns)
                        /\ ops[2 + n + k].path.rect.y
                              = Rational(rc[1] * height.num, height.den * settings.rows)

C14_Witness ==
    /\ pc = "publish"
    /\ settings.columns = 4 /\ settings.rows = 3
    /\ missingIndices = {7}
    /\ newMissingCanvas.ops[2].op = "fill"
    /\ newMissingCanvas.ops[2].path.rect.x = Rational(3 * 900, 4)
    /\ newMissingCanvas.ops[2].path.rect.y = Rational(1 * 600, 3)
    /\ newMissingCanvas.ops[3].op = "stroke"
    /\ Len(newMissingCanvas.ops) = 14

\* The number of hole fills a canvas has received.
FillCount(canvas) ==
    Cardinality({j \in 1..Len(canvas.ops) : canvas.ops[j].op = "fill"})

\* C15: the statistics a generation publishes are total = rows*columns and
\* missing = the size of its missing set, which is the number of holes cut
\* into its missing canvas; when the generation has published all three, the
\* statistics on display count the holes of the missing canvas on display.
\* For columns = 4, rows = 3, missingPercentage = 25 they are 12 and 3.
C15_StatisticsMatchCut ==
    /\ pc \in {"cut", "strokeMissing", "publish"} =>
          pieceStats = {[total |-> settings.rows * settings.columns,
                         missing |-> Cardinality(missingIndices)]}
    /\ pc \in {"strokeMissing", "publish"} =>
          \A stats \in pieceStats : stats.missing = FillCount(newMissingCanvas)
    /\ (pc = "idle" /\ published = {"pieceStats", "completeCanvas", "missingCanvas"}) =>
          pieceStats = {[total |-> lastArgs[2].rows * lastArgs[2].columns,
                         missing |-> FillCount(missingCanvas)]}
    /\ LET example == PuzzleSettings(4, 3, 25, "classic", "#000000", "fast")
       IN  PieceStats(TotalPieces(example), MissingCount(example))
              = [total |-> 12, missing |-> 3]

C15_Witness ==
    /\ pc = "idle"
    /\ published = {"pieceStats", "completeCanvas", "missingCanvas"}
    /\ pieceStats = {[total |-> 12, missing |-> 1]}
    /\ FillCount(missingCanvas) = 1
    /\ Len(missingCanvas.ops) = 14

\* C16: with a fair random draw the selection loop, once entered for a valid
\* configuration, is eventually left; while it runs the set never loses an
\* index, and its size never exceeds missingCount.
C16_LoopTerminates ==
    /\ (pc = "select") ~> (pc = "selected")
    /\ [](pc \in {"select", "selected"} =>
            /\ ValidConfiguration(settings)
            /\ Cardinality(missingIndices) <= missingCount)
    /\ [][pc = "select" =>
            /\ missingIndices \subseteq missingIndices'
            /\ Cardinality(missingIndices') >= Cardinality(missingIndices)]_vars

C16_Witness ==
    /\ pc = "selected"
    /\ settings.missingPercentage = MaxMissingPercentage
    /\ missingCount = 5
    /\ missingIndices = {1, 3, 5, 7, 8}

\* C17: when the grid is built every flag has been assigned once by the random
\* pass, and once more by the propagation pass exactly if it is an interior
\* left or an interior top flag, which then holds what the propagation pass
\* put there; no step of the propagation pass assigns or changes a right or a
\* bottom flag, so these keep the values of the random pass.
C17_WrittenTwiceOrOnce ==
    /\ [](pc = "gridBuilt" =>
            \A rc \in Cells(settings) :
                /\ writes[rc].left = (IF rc[2] > 0 THEN 2 ELSE 1)
                /\ writes[rc].top = (IF rc[1] > 0 THEN 2 ELSE 1)
                /\ writes[rc].right = 1
                /\ writes[rc].bottom = 1
                /\ rc[2] > 0 => piecePattern[rc].left = ~piecePattern[<<rc[1], rc[2] - 1>>].right
                /\ rc[1] > 0 => piecePattern[rc].top = ~piecePattern[<<rc[1] - 1, rc[2]>>].bottom)
    /\ [](pc = "propagate" /\ row = 0 /\ col = 0 =>
            \A rc \in Cells(settings) : writes[rc] = [flag \in Flags |-> 1])
    /\ [][pc = "propagate" =>
            \A rc \in Cells(settings) :
                /\ piecePattern'[rc].right = piecePattern[rc].right
                /\ piecePattern'[rc].bottom = piecePattern[rc].bottom
                /\ writes'[rc].right = writes[rc].right
                /\ writes'[rc].bottom = writes[rc].bottom]_vars

C17_Witness ==
    /\ pc = "gridBuilt"
    /\ writes[<<1, 1>>].left = 2 /\ writes[<<1, 1>>].top = 2
    /\ writes[<<1, 1>>].right = 1 /\ writes[<<0, 0>>].left = 1
    /\ piecePattern[<<1, 1>>].right /\ piecePattern[<<1, 1>>].bottom
    /\ piecePattern[<<1, 1>>].left /\ piecePattern[<<1, 1>>].top

\* C18: the newest request is the last of the pending timers, so the
\* callbacks run in the order of the calls; a callback starts with no grid,
\* no missing set and no canvas of an earlier one; and when no timer is
\* pending and the last callback ran to its end, the canvases and the
\* statistics on display are those of the latest call.
C18_LatestRequestWins ==
    /\ timers # <<>> =>
          LET newest == timers[Len(timers)]
          IN  <<newest.img, newest.settings, newest.usedShapeSeed>> = lastIssued
    /\ pc = "canvas" =>
          /\ piecePattern = <<>>
          /\ missingIndices = {}
          /\ newCompleteCanvas = NoCanvas /\ newMissingCanvas = NoCanvas
    /\ (pc = "idle" /\ timers = <<>>
        /\ published = {"pieceStats", "completeCanvas", "missingCanvas"}) =>
          /\ lastArgs = lastIssued
          /\ Len(completeCanvas.ops) = 1 + lastIssued[2].rows * lastIssued[2].columns
          /\ pieceStats = {[total |-> lastIssued[2].rows * lastIssued[2].columns,
                            missing |-> FillCount(missingCanvas)]}

\* The second of two overlapping requests starts its callback after the first
\* one has published.
C18_Witness ==
    /\ pc = "canvas"
    /\ timers = <<>>
    /\ ~isProcessing
    /\ published = {}
    /\ Request = lastIssued
    /\ settings.pieceStyle = "abstract"
    /\ lastArgs # <<>>
    /\ lastArgs[2].pieceStyle = "classic"

\* C19: isProcessing is true whenever a timer is pending or a callback is
\* running.
C19_ProcessingWhilePending ==
    (timers # <<>> \/ pc # "idle") => isProcessing

\* The newest pending timer.
Newest == timers[Len(timers)]

\* C20: a generation triggered by choosing an image, through the file input
\* or by drag and drop, runs with the settings and the shape seed held in
\* component state when the file is chosen.
C20_ChosenImageUsesCurrentState ==
    [][(\E file \in UIImages : HandleImageUpload(file) \/ HandleDrop(file)) =>
          /\ Newest'.settings = stateSettings
          /\ Newest'.usedShapeSeed = stateShapeSeed]_vars

====
